---- MODULE Spec2Model ----
(***************************************************************************)
(* Model of the obs-assistant backend: the websocket session relay of      *)
(* backend/main.py (websocket_chat, _handle_transcription,                 *)
(* _handle_agent_stream, _run_agent_non_stream) and the VoiceListener of   *)
(* backend/voice.py (capture callback, capture thread, worker thread).     *)
(*                                                                         *)
(* Text is a sequence of one-character strings.  One action is one         *)
(* uninterrupted run of a thread or of an asyncio task: from the point it  *)
(* resumes to the next await / blocking call / thread switch of interest.  *)
(***************************************************************************)
EXTENDS Integers, Sequences, FiniteSets, TLC

----------------------------------------------------------------------------
\* Bounds of the model (not program constants).

\* command requests (chat messages + scheduled transcription tasks) per session
MaxReq == 2
\* inbound frames the session loop receives
MaxInbound == 3
\* VoiceListener objects a session creates, and utterances one listener's
\* capture callback enqueues: in the listener specifications ...
MaxListeners == 2
MaxUtterances == 2
\* ... in Spec, where the whole session runs beside them ...
SessListeners == 1
SessUtterances == 1
\* ... and, with the voice frames received, in the liveness specification
LiveListeners == 1
LiveInbound == 2
\* blocks an open VAD buffer holds before the environment must fall silent
MaxBuffer == 5

----------------------------------------------------------------------------
\* Program constants.

\* main.py:464  max_attempts = 3
max_attempts == 3
\* voice.py:8   SAMPLE_RATE = 16000
SAMPLE_RATE == 16000
\* voice.py:10  BLOCK_DURATION = 0.5 s, in milliseconds
BLOCK_DURATION == 500
\* voice.py:11  SILENCE_THRESHOLD = 0.01; RMS levels are counted in units of 0.01
SILENCE_THRESHOLD == 1
\* voice.py:12  SILENCE_TIMEOUT = 1.5 s, in milliseconds
SILENCE_TIMEOUT == 1500
\* voice.py:13  MIN_SPEECH_DURATION = 0.5 s, in milliseconds
MIN_SPEECH_DURATION == 500

\* main.py:472
APOLOGY_EMPTY ==
    <<"S", "o", "r", "r", "y", ",", " ", "I", " ", "c", "o", "u", "l", "d",
    "n", "'", "t", " ", "g", "e", "n", "e", "r", "a", "t", "e", " ", "a", " ",
    "r", "e", "s", "p", "o", "n", "s", "e", ".", " ", "P", "l", "e", "a", "s",
    "e", " ", "t", "r", "y", " ", "a", "g", "a", "i", "n", ".">>
\* main.py:482
APOLOGY_EXHAUSTED ==
    <<"S", "o", "r", "r", "y", ",", " ", "I", " ", "c", "o", "u", "l", "d",
    "n", "'", "t", " ", "g", "e", "n", "e", "r", "a", "t", "e", " ", "a", " ",
    "r", "e", "s", "p", "o", "n", "s", "e", " ", "a", "f", "t", "e", "r", " ",
    "m", "u", "l", "t", "i", "p", "l", "e", " ", "a", "t", "t", "e", "m", "p",
    "t", "s", ".">>
\* main.py:453 (the dash of the source is written "-")
TIMEOUT_MESSAGE ==
    <<"R", "e", "q", "u", "e", "s", "t", " ", "t", "i", "m", "e", "d", " ",
    "o", "u", "t", " ", "-", " ", "t", "h", "e", " ", "m", "o", "d", "e", "l",
    " ", "t", "o", "o", "k", " ", "t", "o", "o", " ", "l", "o", "n", "g", " ",
    "t", "o", " ", "r", "e", "s", "p", "o", "n", "d", ".">>
\* main.py:477, the two markers of a transient provider error
INVALID_REQUEST ==
    <<"i", "n", "v", "a", "l", "i", "d", "_", "r", "e", "q", "u", "e", "s",
    "t", "_", "e", "r", "r", "o", "r">>
NIL ==
    <<"n", "i", "l">>

----------------------------------------------------------------------------
\* Text helpers (Python str methods, on sequences of characters).

\* str.isspace() for one character
IsSpace(c) ==
    c \in {" ", "\t", "\n", "\r"}

RECURSIVE LStrip(_)
LStrip(s) ==
    IF s /= <<>> /\ IsSpace(Head(s)) THEN LStrip(Tail(s)) ELSE s

RECURSIVE RStrip(_)
RStrip(s) ==
    IF s /= <<>> /\ IsSpace(s[Len(s)]) THEN RStrip(SubSeq(s, 1, Len(s) - 1)) ELSE s

\* str.strip()
Strip(s) ==
    RStrip(LStrip(s))

\* `sub in s`
Contains(s, sub) ==
    \E i \in 1..(Len(s) - Len(sub) + 1) : SubSeq(s, i, i + Len(sub) - 1) = sub

\* str.startswith
StartsWith(s, p) ==
    Len(s) >= Len(p) /\ SubSeq(s, 1, Len(p)) = p

\* str.lower() for the letters the wake word needs
Lower(c) ==
    CASE c = "O" -> "o"
      [] c = "B" -> "b"
      [] c = "S" -> "s"
      [] c = "H" -> "h"
      [] c = "J" -> "j"
      [] OTHER -> c

\* \w of the re module: letters, digits, underscore (over the model's alphabet)
IsWordChar(c) ==
    Lower(c) \in {"o", "b", "s", "h", "j", "x", "k", "i", "n", "l", "0", "_"}

\* the class [\s,.:!?] of _WAKE_RE
IsWakeSep(c) ==
    IsSpace(c) \/ c \in {",", ".", ":", "!", "?"}

----------------------------------------------------------------------------
\* The wake-word gate: _WAKE_RE = \bobs[\s,.:!?]+(.+), re.IGNORECASE (main.py:486)

\* the pattern matches at position i with exactly k separator characters
WakeAt(t, i, k) ==
    /\ k >= 1
    /\ i + 3 + k <= Len(t)
    /\ (i = 1 \/ ~IsWordChar(t[i - 1]))
    /\ Lower(t[i]) = "o" /\ Lower(t[i + 1]) = "b" /\ Lower(t[i + 2]) = "s"
    /\ \A j \in (i + 3)..(i + 2 + k) : IsWakeSep(t[j])
    /\ t[i + 3 + k] /= "\n"

WakeStarts(t) ==
    {i \in 1..Len(t) : \E k \in 1..Len(t) : WakeAt(t, i, k)}

\* first position >= i holding a newline, or Len(t) + 1
RECURSIVE LineEnd(_, _)
LineEnd(t, i) ==
    IF i > Len(t) \/ t[i] = "\n" THEN i ELSE LineEnd(t, i + 1)

\* _WAKE_RE.search(t): leftmost start, greedy separators, (.+) up to the line end
WakeSearch(t) ==
    IF WakeStarts(t) = {}
    THEN [matched |-> FALSE, group1 |-> <<>>]
    ELSE LET i == CHOOSE a \in WakeStarts(t) : \A b \in WakeStarts(t) : a <= b
             k == CHOOSE a \in 1..Len(t) :
                     /\ WakeAt(t, i, a)
                     /\ \A b \in 1..Len(t) : WakeAt(t, i, b) => b <= a
         IN  [matched |-> TRUE,
              group1 |-> SubSeq(t, i + 3 + k, LineEnd(t, i + 3 + k) - 1)]

----------------------------------------------------------------------------
\* Outbound protocol messages (json.dumps payloads of ws.send_text)

Msg(t, c) ==
    [type |-> t, content |-> c]

StreamStart == Msg("stream_start", <<>>)
StreamEnd == Msg("stream_end", <<>>)
StreamDelta(c) == Msg("stream_delta", c)
ErrorMsg(c) == Msg("error", c)
Transcription(c) == Msg("transcription", c)
VoiceStatus(b) == [type |-> "voice_status", listening |-> b]
ObsStatus(b, m) == [type |-> "obs_status", connected |-> b, message |-> m]

----------------------------------------------------------------------------
\* The command executor agent.run (external): what one call can do.

\* result.output of a returned call (None is kind "none"), or a raised exception
\* with its str(e); timeout_error marks an instance of asyncio.TimeoutError
AgentOutcomes ==
    { [kind |-> "none", text |-> <<>>, timeout_error |-> FALSE],
      [kind |-> "output", text |-> <<>>, timeout_error |-> FALSE],
      [kind |-> "output", text |-> <<" ", "\n">>, timeout_error |-> FALSE],
      [kind |-> "output", text |-> <<" ", "o", "k">>, timeout_error |-> FALSE],
      [kind |-> "error", text |-> <<"x", "n", "i", "l">>, timeout_error |-> FALSE],
      [kind |-> "error", text |-> INVALID_REQUEST, timeout_error |-> FALSE],
      [kind |-> "error", text |-> <<"h", "i", "n", "t">>, timeout_error |-> FALSE],
      [kind |-> "error", text |-> <<>>, timeout_error |-> TRUE] }

\* the outcomes of Spec, where the listener runs beside the requests: a text, a
\* blank output and an error that is not retried
SessOutcomes ==
    {o \in AgentOutcomes :
        \/ o.kind = "none"
        \/ o.kind = "output" /\ Len(o.text) > 2
        \/ o.kind = "error" /\ o.text = <<"h", "i", "n", "t">>}

\* main.py:468  result.output is None or result.output.strip() == ""
IsBlankOutput(o) ==
    o.kind = "none" \/ (o.kind = "output" /\ Strip(o.text) = <<>>)

\* main.py:477  "invalid_request_error" in err_str or "nil" in err_str
IsTransient(o) ==
    o.kind = "error" /\ (Contains(o.text, INVALID_REQUEST) \/ Contains(o.text, NIL))

\* the class of an outcome, as the retry loop tells them apart
OutcomeClass(o) ==
    CASE IsBlankOutput(o) -> "blank"
      [] o.kind = "output" -> "valid"
      [] IsTransient(o) -> "transient"
      [] OTHER -> "hard"

\* A retry loop that returns result.output.strip() instead of result.output
RunAgentStep_Stripped(attempt, o) ==
    IF o.kind \in {"none", "output"}
    THEN IF IsBlankOutput(o)
         THEN IF attempt < max_attempts - 1
              THEN [do |-> "retry", text |-> <<>>, timeout_error |-> FALSE]
              ELSE [do |-> "return", text |-> APOLOGY_EMPTY, timeout_error |-> FALSE]
         ELSE [do |-> "return", text |-> Strip(o.text), timeout_error |-> FALSE]
    ELSE IF IsTransient(o) /\ attempt < max_attempts - 1
         THEN [do |-> "retry", text |-> <<>>, timeout_error |-> FALSE]
         ELSE [do |-> "raise", text |-> o.text, timeout_error |-> o.timeout_error]

\* A retry loop whose last blank result falls out of the loop to the return of
\* main.py:482
RunAgentStep_FallThrough(attempt, o) ==
    IF o.kind \in {"none", "output"}
    THEN IF IsBlankOutput(o)
         THEN IF attempt < max_attempts - 1
              THEN [do |-> "retry", text |-> <<>>, timeout_error |-> FALSE]
              ELSE [do |-> "return", text |-> APOLOGY_EXHAUSTED, timeout_error |-> FALSE]
         ELSE [do |-> "return", text |-> o.text, timeout_error |-> FALSE]
    ELSE IF IsTransient(o) /\ attempt < max_attempts - 1
         THEN [do |-> "retry", text |-> <<>>, timeout_error |-> FALSE]
         ELSE [do |-> "raise", text |-> o.text, timeout_error |-> o.timeout_error]

\* A retry loop that retries after every error, transient or not
RunAgentStep_RetryAll(attempt, o) ==
    IF o.kind \in {"none", "output"}
    THEN IF IsBlankOutput(o)
         THEN IF attempt < max_attempts - 1
              THEN [do |-> "retry", text |-> <<>>, timeout_error |-> FALSE]
              ELSE [do |-> "return", text |-> APOLOGY_EMPTY, timeout_error |-> FALSE]
         ELSE [do |-> "return", text |-> o.text, timeout_error |-> FALSE]
    ELSE IF attempt < max_attempts - 1
         THEN [do |-> "retry", text |-> <<>>, timeout_error |-> FALSE]
         ELSE [do |-> "raise", text |-> o.text, timeout_error |-> o.timeout_error]

\* A retry loop that returns the last result as it is, blank or not
RunAgentStep_ReturnsBlank(attempt, o) ==
    IF o.kind \in {"none", "output"}
    THEN IF IsBlankOutput(o) /\ attempt < max_attempts - 1
         THEN [do |-> "retry", text |-> <<>>, timeout_error |-> FALSE]
         ELSE [do |-> "return", text |-> o.text, timeout_error |-> FALSE]
    ELSE IF IsTransient(o) /\ attempt < max_attempts - 1
         THEN [do |-> "retry", text |-> <<>>, timeout_error |-> FALSE]
         ELSE [do |-> "raise", text |-> o.text, timeout_error |-> o.timeout_error]

\* main.py:465-482: what the retry loop does with the outcome o of attempt
\* number `attempt` (0-based): retry, return a text, or raise
RunAgentStep(attempt, o) ==
    IF o.kind \in {"none", "output"}
    THEN IF IsBlankOutput(o)
         THEN IF attempt < max_attempts - 1
              THEN [do |-> "retry", text |-> <<>>, timeout_error |-> FALSE]
              ELSE [do |-> "return", text |-> APOLOGY_EMPTY, timeout_error |-> FALSE]
         ELSE [do |-> "return", text |-> o.text, timeout_error |-> FALSE]
    ELSE IF IsTransient(o) /\ attempt < max_attempts - 1
         THEN [do |-> "retry", text |-> <<>>, timeout_error |-> FALSE]
         ELSE [do |-> "raise", text |-> o.text, timeout_error |-> o.timeout_error]

\* main.py:450-459: the Error message _handle_agent_stream sends for an exception
ErrorFor(e) ==
    IF e.timeout_error THEN ErrorMsg(TIMEOUT_MESSAGE) ELSE ErrorMsg(e.text)

----------------------------------------------------------------------------
\* State.

VARIABLES
    ws,             \* the transport as the server sees it: "open" or "closed"
    mainPc,         \* websocket_chat: "recv", "agent", "vstop", "disc", "dstop", "exit"
    inbox,          \* the inbound frames receive_text has returned, in order
    listener,       \* websocket_chat's local `listener`: 0 (None) or a listener id
    ctl,            \* the voice_status messages sent, in order
    reqs,           \* command requests and transcription tasks, in creation order
    nlis,           \* VoiceListener objects constructed so far
    running,        \* VoiceListener._running
    queue,          \* VoiceListener._queue
    is_speaking,    \* VoiceListener._is_speaking
    silent_count,   \* VoiceListener._silent_count
    audio_buffer,   \* VoiceListener._audio_buffer
    nput,           \* utterances this listener's callback has put so far
    stream,         \* the audio callback: "idle", "checked", "aborted"
    listen_thread,  \* _listen_loop: "none", "open", "exited"
    worker_thread,  \* _transcribe_loop: "none", "test", "get", "stt", "exited"
    audio,          \* the worker's local `audio` while it transcribes
    heard,          \* the utterance ids each worker passed to transcribe_audio
    returned,       \* what transcribe_audio did with each of them: its text, or it raised
    obs_client,     \* the module global obs_client: 0 (None) or a client id
    deps,           \* deps.obs_client of the session: 0 (None) or a client id
    obs_out         \* the obs_status messages sent, in order

sessVars == <<ws, mainPc, inbox, listener, ctl>>
vadVars == <<is_speaking, silent_count, audio_buffer, nput, stream>>
lisVars == <<nlis, running, queue, listen_thread, worker_thread, audio, heard,
            returned>>
obsVars == <<obs_client, deps, obs_out>>
vars == <<sessVars, reqs, vadVars, lisVars, obsVars>>

Listeners == 1..MaxListeners

\* queue.put(None): the stop sentinel; an utterance has id >= 1 and blocks
Sentinel ==
    [id |-> 0, blocks |-> <<>>]

\* main.py:490-502: the session has opened and sent its first obs_status;
\* `client` is the module global as the session finds it
SessionOpen(client) ==
    /\ obs_client = client
    /\ deps = client
    /\ obs_out = <<ObsStatus(client /= 0,
                             IF client /= 0 THEN "connected" ELSE "not connected")>>

\* the session and its listeners before the first inbound frame
NoFrameYet ==
    /\ ws = "open"
    /\ mainPc = "recv"
    /\ inbox = <<>>
    /\ listener = 0
    /\ ctl = <<>>
    /\ nlis = 0
    /\ running = [l \in Listeners |-> FALSE]
    /\ queue = [l \in Listeners |-> <<>>]
    /\ is_speaking = [l \in Listeners |-> FALSE]
    /\ silent_count = [l \in Listeners |-> 0]
    /\ audio_buffer = [l \in Listeners |-> <<>>]
    /\ nput = [l \in Listeners |-> 0]
    /\ stream = [l \in Listeners |-> "idle"]
    /\ listen_thread = [l \in Listeners |-> "none"]
    /\ worker_thread = [l \in Listeners |-> "none"]
    /\ audio = [l \in Listeners |-> Sentinel]
    /\ heard = [l \in Listeners |-> <<>>]
    /\ returned = [l \in Listeners |-> <<>>]

\* the first session of the process: obs_client is None (main.py:421)
Init ==
    NoFrameYet /\ reqs = <<>> /\ SessionOpen(0)

----------------------------------------------------------------------------
\* Command requests: _handle_agent_stream and _run_agent_non_stream.

\* `last` of a request whose retry loop has not ended
NoOutcome ==
    [kind |-> "pending", text |-> <<>>, timeout_error |-> FALSE]

\* A request record.  pc: "sched" (transcription task scheduled on the loop),
\* "sentTrans" (transcription sent), "running" (stream_start sent, an agent.run
\* call in flight), "sentDelta", "done", "ignored" (no wake word), "aborted"
\* (a send raised on the closed transport).  hist: how each agent.run call of
\* the request ended, an outcome class or "timeout" (cancelled by wait_for).
\* last: the outcome of the call that ended the retry loop.  out: the messages
\* this request has sent.
NewRequest(origin, l, u, text, pc) ==
    [origin |-> origin, lis |-> l, utt |-> u, text |-> text, command |-> <<>>,
     pc |-> pc, attempt |-> 0, hist |-> <<>>, last |-> NoOutcome, out |-> <<>>]

Terminal(r) ==
    reqs[r].pc \in {"done", "ignored", "aborted"}

\* where websocket_chat goes when the request it awaits has ended: back to
\* receive_text, or out of the loop by the exception a failed send raised
\* (wsd: it is a WebSocketDisconnect, which the handler catches; else it escapes)
MainAfter(r, endPc, wsd) ==
    IF reqs[r].origin /= "chat" THEN mainPc
    ELSE IF endPc = "done" THEN "recv"
    ELSE IF endPc = "aborted"
         THEN IF wsd THEN "disc" ELSE "exit"
    ELSE mainPc

\* main.py:442-459: an agent.run call of request r ends with outcome o
AgentReturns(r, o, wsd) ==
    /\ r \in 1..Len(reqs)
    /\ reqs[r].pc = "running"
    /\ LET q == reqs[r]
           step == RunAgentStep(q.attempt, o)
           h == Append(q.hist, OutcomeClass(o))
           msg == IF step.do = "return" THEN StreamDelta(step.text) ELSE ErrorFor(step)
           endPc == IF step.do = "retry" THEN "running"
                    ELSE IF ws = "closed" THEN "aborted"
                    ELSE IF step.do = "return" THEN "sentDelta"
                    ELSE "done"
       IN  /\ reqs' = [reqs EXCEPT ![r] =
                 IF step.do = "retry"
                 THEN [q EXCEPT !.attempt = q.attempt + 1, !.hist = h]
                 ELSE [q EXCEPT !.hist = h, !.pc = endPc, !.last = o,
                                !.out = IF ws = "open" THEN Append(q.out, msg) ELSE q.out]]
           /\ mainPc' = MainAfter(r, endPc, wsd)
    /\ UNCHANGED <<ws, inbox, listener, ctl, vadVars, lisVars>>
    /\ UNCHANGED obsVars

\* A handler without `except asyncio.TimeoutError`: the timeout ends the
\* request with nothing sent and escapes the receive loop
AgentTimeout_Unhandled(r, wsd) ==
    /\ r \in 1..Len(reqs)
    /\ reqs[r].pc = "running"
    /\ reqs' = [reqs EXCEPT ![r] =
           [@ EXCEPT !.pc = "aborted", !.hist = Append(reqs[r].hist, "timeout")]]
    /\ mainPc' = MainAfter(r, "aborted", FALSE)
    /\ UNCHANGED <<ws, inbox, listener, ctl, vadVars, lisVars>>
    /\ UNCHANGED obsVars

\* main.py:442-454: asyncio.wait_for gives up while an agent.run call is in flight
AgentTimeout(r, wsd) ==
    /\ r \in 1..Len(reqs)
    /\ reqs[r].pc = "running"
    /\ LET q == reqs[r]
           endPc == IF ws = "closed" THEN "aborted" ELSE "done"
       IN  /\ reqs' = [reqs EXCEPT ![r] =
                 [q EXCEPT !.pc = endPc, !.hist = Append(q.hist, "timeout"),
                           !.out = IF ws = "open"
                                   THEN Append(q.out, ErrorMsg(TIMEOUT_MESSAGE))
                                   ELSE q.out]]
           /\ mainPc' = MainAfter(r, endPc, wsd)
    /\ UNCHANGED <<ws, inbox, listener, ctl, vadVars, lisVars>>
    /\ UNCHANGED obsVars

\* A handler that sends an error where stream_end belongs
SendStreamEnd_ErrorAfterDelta(r, wsd) ==
    /\ r \in 1..Len(reqs)
    /\ reqs[r].pc = "sentDelta"
    /\ LET q == reqs[r]
           endPc == IF ws = "closed" THEN "aborted" ELSE "done"
       IN  /\ reqs' = [reqs EXCEPT ![r] =
                 [q EXCEPT !.pc = endPc,
                           !.out = IF ws = "open" THEN Append(q.out, ErrorMsg(<<>>))
                                   ELSE q.out]]
           /\ mainPc' = MainAfter(r, endPc, wsd)
    /\ UNCHANGED <<ws, inbox, listener, ctl, vadVars, lisVars>>
    /\ UNCHANGED obsVars

\* main.py:449: the send of stream_end, after the send of stream_delta returned
SendStreamEnd(r, wsd) ==
    /\ r \in 1..Len(reqs)
    /\ reqs[r].pc = "sentDelta"
    /\ LET q == reqs[r]
           endPc == IF ws = "closed" THEN "aborted" ELSE "done"
       IN  /\ reqs' = [reqs EXCEPT ![r] =
                 [q EXCEPT !.pc = endPc,
                           !.out = IF ws = "open" THEN Append(q.out, StreamEnd) ELSE q.out]]
           /\ mainPc' = MainAfter(r, endPc, wsd)
    /\ UNCHANGED <<ws, inbox, listener, ctl, vadVars, lisVars>>
    /\ UNCHANGED obsVars

----------------------------------------------------------------------------
\* Transcription tasks: _handle_transcription, scheduled by on_transcription.

\* An event loop that runs the scheduled tasks in any order
TaskGate_AnyOrder(r) ==
    /\ r \in 1..Len(reqs)
    /\ reqs[r].pc = "sched"
    /\ LET q == reqs[r]
           m == WakeSearch(Strip(q.text))
       IN  reqs' = [reqs EXCEPT ![r] =
               IF ~m.matched THEN [q EXCEPT !.pc = "ignored"]
               ELSE IF ws = "closed"
                    THEN [q EXCEPT !.pc = "aborted", !.command = Strip(m.group1)]
               ELSE [q EXCEPT !.pc = "sentTrans", !.command = Strip(m.group1),
                              !.out = <<Transcription(q.text)>>]]
    /\ UNCHANGED <<sessVars, vadVars, lisVars>>
    /\ UNCHANGED obsVars

\* A _handle_transcription that sends the extracted command as the content of
\* the transcription message
TaskGate_SendsCommand(r) ==
    /\ r \in 1..Len(reqs)
    /\ reqs[r].pc = "sched"
    /\ \A r2 \in 1..(r - 1) : reqs[r2].pc /= "sched"
    /\ LET q == reqs[r]
           m == WakeSearch(Strip(q.text))
       IN  reqs' = [reqs EXCEPT ![r] =
               IF ~m.matched THEN [q EXCEPT !.pc = "ignored"]
               ELSE IF ws = "closed"
                    THEN [q EXCEPT !.pc = "aborted", !.command = Strip(m.group1)]
               ELSE [q EXCEPT !.pc = "sentTrans", !.command = Strip(m.group1),
                              !.out = <<Transcription(Strip(m.group1))>>]]
    /\ UNCHANGED <<sessVars, vadVars, lisVars>>
    /\ UNCHANGED obsVars

\* main.py:508-519, up to the send of the transcription message.  The loop runs
\* the tasks that run_coroutine_threadsafe scheduled in the order it got them.
TaskGate(r) ==
    /\ r \in 1..Len(reqs)
    /\ reqs[r].pc = "sched"
    /\ \A r2 \in 1..(r - 1) : reqs[r2].pc /= "sched"
    /\ LET q == reqs[r]
           m == WakeSearch(Strip(q.text))
       IN  reqs' = [reqs EXCEPT ![r] =
               IF ~m.matched THEN [q EXCEPT !.pc = "ignored"]
               ELSE IF ws = "closed"
                    THEN [q EXCEPT !.pc = "aborted", !.command = Strip(m.group1)]
               ELSE [q EXCEPT !.pc = "sentTrans", !.command = Strip(m.group1),
                              !.out = <<Transcription(q.text)>>]]
    /\ UNCHANGED <<sessVars, vadVars, lisVars>>
    /\ UNCHANGED obsVars

\* main.py:517 and 440: the task enters _handle_agent_stream and sends stream_start
TaskStart(r) ==
    /\ r \in 1..Len(reqs)
    /\ reqs[r].pc = "sentTrans"
    /\ LET q == reqs[r]
       IN  reqs' = [reqs EXCEPT ![r] =
               IF ws = "closed" THEN [q EXCEPT !.pc = "aborted"]
               ELSE [q EXCEPT !.pc = "running", !.out = Append(q.out, StreamStart)]]
    /\ UNCHANGED <<sessVars, vadVars, lisVars>>
    /\ UNCHANGED obsVars

----------------------------------------------------------------------------
\* websocket_chat: the receive loop.

\* an inbound frame, as json.loads returns it
Frame(t, c) ==
    [type |-> t, content |-> c]

\* the `content` of an inbound {"type": "message"}: missing or empty, or a text
ChatContents ==
    {<<>>, <<"h", "i">>}

\* main.py:527-531 and 440
RecvMessage(user_message) ==
    /\ mainPc = "recv" /\ ws = "open" /\ Len(inbox) < MaxInbound
    /\ inbox' = Append(inbox, Frame("message", user_message))
    /\ IF user_message = <<>>
       THEN UNCHANGED <<mainPc, reqs>>
       ELSE /\ Len(reqs) < MaxReq
            /\ reqs' = Append(reqs,
                   [NewRequest("chat", 0, 0, user_message, "running")
                       EXCEPT !.command = user_message, !.out = <<StreamStart>>])
            /\ mainPc' = "agent"
    /\ UNCHANGED <<ws, listener, ctl, vadVars, lisVars>>
    /\ UNCHANGED obsVars

\* inbound texts for which `json.loads(raw)` or `data.get` raises: a text that
\* is not JSON (json.JSONDecodeError) and a JSON value that is not an object
\* (AttributeError: a list, a string, a number, null)
BadRaws ==
    {"not_json", "not_object"}

\* main.py:523-525: json.loads or data.get raises; the exception is not a
\* WebSocketDisconnect, so it leaves the loop past the except clause of line 563
RecvUnparsable(raw) ==
    /\ mainPc = "recv" /\ ws = "open" /\ Len(inbox) < MaxInbound
    /\ inbox' = Append(inbox, Frame(raw, <<>>))
    /\ mainPc' = "exit"
    /\ UNCHANGED <<ws, listener, ctl, reqs, vadVars, lisVars, obsVars>>

\* the `type` of an object no branch of the loop takes: missing (msg_type is "")
\* or unknown
OtherTypes ==
    {"", "foo"}

\* main.py:523-527: no branch matches, the loop goes on
RecvOther(msg_type) ==
    /\ mainPc = "recv" /\ ws = "open" /\ Len(inbox) < MaxInbound
    /\ inbox' = Append(inbox, Frame(msg_type, <<>>))
    /\ UNCHANGED <<ws, mainPc, listener, ctl, reqs, vadVars, lisVars, obsVars>>

\* the `port` of an inbound obs_connect: missing (the default 4455), an integer
\* or a string of digits, a string that is no number, null
Ports ==
    {"missing", "4455", "abc", "null"}

\* main.py:534  int(data.get("port", 4455)) returns (else ValueError / TypeError)
PortIsInt(port) ==
    port \in {"missing", "4455"}

\* main.py:424-435  connect_obs: a new client and its version message, or None
\* and the error text (every exception of the connection is caught)
connect_obs(ok, fresh) ==
    IF ok THEN [client |-> fresh, msg |-> "Connected"]
    ELSE [client |-> 0, msg |-> "error"]

\* An obs_connect handler that keeps the handle it had when the connection
\* fails
RecvObsConnect_KeepsHandle(port, ok) ==
    /\ mainPc = "recv" /\ ws = "open" /\ Len(inbox) < MaxInbound
    /\ inbox' = Append(inbox, Frame("obs_connect", <<port>>))
    /\ IF PortIsInt(port)
       THEN LET r == connect_obs(ok, Len(obs_out) + 1)
            IN  /\ obs_client' = (IF r.client /= 0 THEN r.client ELSE obs_client)
                /\ deps' = (IF r.client /= 0 THEN r.client ELSE deps)
                /\ obs_out' = Append(obs_out, ObsStatus(r.client /= 0, r.msg))
                /\ UNCHANGED mainPc
       ELSE /\ mainPc' = "exit"
            /\ UNCHANGED obsVars
    /\ UNCHANGED <<ws, listener, ctl, reqs, vadVars, lisVars>>

\* main.py:533-543
RecvObsConnect(port, ok) ==
    /\ mainPc = "recv" /\ ws = "open" /\ Len(inbox) < MaxInbound
    /\ inbox' = Append(inbox, Frame("obs_connect", <<port>>))
    /\ IF PortIsInt(port)
       THEN LET r == connect_obs(ok, Len(obs_out) + 1)
            IN  /\ obs_client' = r.client
                /\ deps' = r.client
                /\ obs_out' = Append(obs_out, ObsStatus(r.client /= 0, r.msg))
                /\ UNCHANGED mainPc
       ELSE /\ mainPc' = "exit"
            /\ UNCHANGED obsVars
    /\ UNCHANGED <<ws, listener, ctl, reqs, vadVars, lisVars>>

\* A voice_start handler without the `listener.running` test: it constructs and
\* starts a listener every time
VoiceStart_Always(maxLis, maxIn) ==
    /\ mainPc = "recv" /\ ws = "open" /\ Len(inbox) < maxIn
    /\ inbox' = Append(inbox, Frame("voice_start", <<>>))
    /\ nlis < maxLis
    /\ nlis' = nlis + 1
    /\ listener' = nlis + 1
    /\ running' = [running EXCEPT ![nlis + 1] = TRUE]
    /\ listen_thread' = [listen_thread EXCEPT ![nlis + 1] = "open"]
    /\ worker_thread' = [worker_thread EXCEPT ![nlis + 1] = "test"]
    /\ ctl' = Append(ctl, VoiceStatus(TRUE))
    /\ UNCHANGED <<ws, mainPc, reqs, vadVars, queue, audio, heard, returned>>
    /\ UNCHANGED obsVars

\* main.py:545-552 with VoiceListener.__init__ and start (voice.py:33-51)
VoiceStart(maxLis, maxIn) ==
    /\ mainPc = "recv" /\ ws = "open" /\ Len(inbox) < maxIn
    /\ inbox' = Append(inbox, Frame("voice_start", <<>>))
    /\ IF listener = 0 \/ ~running[listener]
       THEN /\ nlis < maxLis
            /\ nlis' = nlis + 1
            /\ listener' = nlis + 1
            /\ running' = [running EXCEPT ![nlis + 1] = TRUE]
            /\ listen_thread' = [listen_thread EXCEPT ![nlis + 1] = "open"]
            /\ worker_thread' = [worker_thread EXCEPT ![nlis + 1] = "test"]
       ELSE UNCHANGED <<nlis, listener, running, listen_thread, worker_thread>>
    /\ ctl' = Append(ctl, VoiceStatus(TRUE))
    /\ UNCHANGED <<ws, mainPc, reqs, vadVars, queue, audio, heard, returned>>
    /\ UNCHANGED obsVars

\* main.py:554-556 and voice.py:54: up to `self._running = False` of stop(),
\* or the whole handler when there is nothing to stop
VoiceStop(maxIn) ==
    /\ mainPc = "recv" /\ ws = "open" /\ Len(inbox) < maxIn
    /\ inbox' = Append(inbox, Frame("voice_stop", <<>>))
    /\ IF listener /= 0 /\ running[listener]
       THEN /\ running' = [running EXCEPT ![listener] = FALSE]
            /\ mainPc' = "vstop"
            /\ UNCHANGED ctl
       ELSE /\ ctl' = Append(ctl, VoiceStatus(FALSE))
            /\ UNCHANGED <<running, mainPc>>
    /\ UNCHANGED <<ws, listener, reqs, vadVars, nlis, queue, listen_thread,
                   worker_thread, audio, heard, returned>>
    /\ UNCHANGED obsVars

\* A stop() without `self._queue.put(None)`
VoiceStopPut_NoSentinel ==
    /\ mainPc = "vstop"
    /\ listener' = 0
    /\ IF ws = "open"
       THEN ctl' = Append(ctl, VoiceStatus(FALSE)) /\ mainPc' = "recv"
       ELSE UNCHANGED ctl /\ mainPc' = "exit"
    /\ UNCHANGED <<ws, inbox, reqs, vadVars, nlis, running, queue, listen_thread,
                   worker_thread, audio, heard, returned>>
    /\ UNCHANGED obsVars

\* voice.py:55 and main.py:557-561: the rest of stop() and of the handler
VoiceStopPut ==
    /\ mainPc = "vstop"
    /\ queue' = [queue EXCEPT ![listener] = Append(@, Sentinel)]
    /\ listener' = 0
    /\ IF ws = "open"
       THEN ctl' = Append(ctl, VoiceStatus(FALSE)) /\ mainPc' = "recv"
       ELSE UNCHANGED ctl /\ mainPc' = "exit"
    /\ UNCHANGED <<ws, inbox, reqs, vadVars, nlis, running, listen_thread,
                   worker_thread, audio, heard, returned>>
    /\ UNCHANGED obsVars

\* the client goes away
ClientClose ==
    /\ ws = "open"
    /\ ws' = "closed"
    /\ UNCHANGED <<mainPc, inbox, listener, ctl, reqs, vadVars, lisVars>>
    /\ UNCHANGED obsVars

\* main.py:563-566 and voice.py:54: WebSocketDisconnect reaches the except
\* clause, from receive_text or from a send; up to `self._running = False`
Disconnect ==
    /\ ((mainPc = "recv" /\ ws = "closed") \/ mainPc = "disc")
    /\ IF listener /= 0 /\ running[listener]
       THEN /\ running' = [running EXCEPT ![listener] = FALSE]
            /\ mainPc' = "dstop"
       ELSE /\ mainPc' = "exit"
            /\ UNCHANGED running
    /\ UNCHANGED <<ws, inbox, listener, ctl, reqs, vadVars, nlis, queue,
                   listen_thread, worker_thread, audio, heard, returned>>
    /\ UNCHANGED obsVars

\* voice.py:55 and main.py:566: the rest of stop(), and the handler returns
DisconnectPut ==
    /\ mainPc = "dstop"
    /\ queue' = [queue EXCEPT ![listener] = Append(@, Sentinel)]
    /\ mainPc' = "exit"
    /\ UNCHANGED <<ws, inbox, listener, ctl, reqs, vadVars, nlis, running,
                   listen_thread, worker_thread, audio, heard, returned>>
    /\ UNCHANGED obsVars

----------------------------------------------------------------------------
\* VoiceListener: the capture callback and the capture thread (voice.py:62-108).

\* voice.py:63  block_size = int(SAMPLE_RATE * BLOCK_DURATION), in samples
block_size ==
    (SAMPLE_RATE * BLOCK_DURATION) \div 1000

\* voice.py:64  silence_blocks = int(SILENCE_TIMEOUT / BLOCK_DURATION)
silence_blocks ==
    SILENCE_TIMEOUT \div BLOCK_DURATION

\* voice.py:87  duration = len(full_audio) / SAMPLE_RATE, in milliseconds
Duration(blocks) ==
    (Len(blocks) * block_size * 1000) \div SAMPLE_RATE

\* An audio_cb whose test is `level >= SILENCE_THRESHOLD`
VadStep_GreaterEqual(v, level) ==
    IF level >= SILENCE_THRESHOLD
    THEN [speaking |-> TRUE, silent |-> 0, buffer |-> Append(v.buffer, level),
          put |-> <<>>]
    ELSE IF v.speaking
    THEN LET buf == Append(v.buffer, level)
             cnt == v.silent + 1
         IN  IF cnt >= silence_blocks
             THEN [speaking |-> FALSE, silent |-> 0, buffer |-> <<>>,
                   put |-> IF Duration(buf) >= MIN_SPEECH_DURATION THEN buf ELSE <<>>]
             ELSE [speaking |-> TRUE, silent |-> cnt, buffer |-> buf, put |-> <<>>]
    ELSE [speaking |-> v.speaking, silent |-> v.silent, buffer |-> v.buffer,
          put |-> <<>>]

\* An audio_cb without the `elif self._is_speaking` test: silence is buffered
\* and counted while idle too
VadStep_NoOnset(v, level) ==
    IF level > SILENCE_THRESHOLD
    THEN [speaking |-> TRUE, silent |-> 0, buffer |-> Append(v.buffer, level),
          put |-> <<>>]
    ELSE LET buf == Append(v.buffer, level)
             cnt == v.silent + 1
         IN  IF cnt >= silence_blocks
             THEN [speaking |-> FALSE, silent |-> 0, buffer |-> <<>>,
                   put |-> IF Duration(buf) >= MIN_SPEECH_DURATION THEN buf ELSE <<>>]
             ELSE [speaking |-> v.speaking, silent |-> cnt, buffer |-> buf,
                   put |-> <<>>]

\* An audio_cb without the `self._silent_count = 0` of a block above the
\* threshold
VadStep_NoReset(v, level) ==
    IF level > SILENCE_THRESHOLD
    THEN [speaking |-> TRUE, silent |-> v.silent, buffer |-> Append(v.buffer, level),
          put |-> <<>>]
    ELSE IF v.speaking
    THEN LET buf == Append(v.buffer, level)
             cnt == v.silent + 1
         IN  IF cnt >= silence_blocks
             THEN [speaking |-> FALSE, silent |-> 0, buffer |-> <<>>,
                   put |-> IF Duration(buf) >= MIN_SPEECH_DURATION THEN buf ELSE <<>>]
             ELSE [speaking |-> TRUE, silent |-> cnt, buffer |-> buf, put |-> <<>>]
    ELSE [speaking |-> v.speaking, silent |-> v.silent, buffer |-> v.buffer,
          put |-> <<>>]

\* An audio_cb without `self._audio_buffer.clear()`
VadStep_NoClear(v, level) ==
    IF level > SILENCE_THRESHOLD
    THEN [speaking |-> TRUE, silent |-> 0, buffer |-> Append(v.buffer, level),
          put |-> <<>>]
    ELSE IF v.speaking
    THEN LET buf == Append(v.buffer, level)
             cnt == v.silent + 1
         IN  IF cnt >= silence_blocks
             THEN [speaking |-> FALSE, silent |-> 0, buffer |-> buf,
                   put |-> IF Duration(buf) >= MIN_SPEECH_DURATION THEN buf ELSE <<>>]
             ELSE [speaking |-> TRUE, silent |-> cnt, buffer |-> buf, put |-> <<>>]
    ELSE [speaking |-> v.speaking, silent |-> v.silent, buffer |-> v.buffer,
          put |-> <<>>]

\* voice.py:75-93: audio_cb after the _running check, on the VAD state
\* v = [speaking, silent, buffer] and a block of RMS `level`;
\* `put` is the utterance handed to queue.put, <<>> when there is none
VadStep(v, level) ==
    IF level > SILENCE_THRESHOLD
    THEN [speaking |-> TRUE, silent |-> 0, buffer |-> Append(v.buffer, level),
          put |-> <<>>]
    ELSE IF v.speaking
    THEN LET buf == Append(v.buffer, level)
             cnt == v.silent + 1
         IN  IF cnt >= silence_blocks
             THEN [speaking |-> FALSE, silent |-> 0, buffer |-> <<>>,
                   put |-> IF Duration(buf) >= MIN_SPEECH_DURATION THEN buf ELSE <<>>]
             ELSE [speaking |-> TRUE, silent |-> cnt, buffer |-> buf, put |-> <<>>]
    ELSE [speaking |-> v.speaking, silent |-> v.silent, buffer |-> v.buffer,
          put |-> <<>>]

\* voice.py:66-68: the driver calls audio_cb, which tests _running first
AudioCbEnter(l, maxUtt) ==
    /\ listen_thread[l] = "open" /\ stream[l] = "idle"
    /\ IF running[l]
       THEN /\ nput[l] < maxUtt
            /\ Len(audio_buffer[l]) < MaxBuffer
            /\ stream' = [stream EXCEPT ![l] = "checked"]
       ELSE stream' = [stream EXCEPT ![l] = "aborted"]
    /\ UNCHANGED <<sessVars, reqs, is_speaking, silent_count, audio_buffer, nput, lisVars>>
    /\ UNCHANGED obsVars

\* voice.py:72-93: the rest of audio_cb for a block of RMS `level`
AudioCbBody(l, level) ==
    /\ stream[l] = "checked"
    /\ LET v == VadStep([speaking |-> is_speaking[l], silent |-> silent_count[l],
                         buffer |-> audio_buffer[l]], level)
       IN  /\ is_speaking' = [is_speaking EXCEPT ![l] = v.speaking]
           /\ silent_count' = [silent_count EXCEPT ![l] = v.silent]
           /\ audio_buffer' = [audio_buffer EXCEPT ![l] = v.buffer]
           /\ IF v.put /= <<>>
              THEN /\ nput' = [nput EXCEPT ![l] = @ + 1]
                   /\ queue' = [queue EXCEPT ![l] =
                          Append(@, [id |-> nput[l] + 1, blocks |-> v.put])]
              ELSE UNCHANGED <<nput, queue>>
    /\ stream' = [stream EXCEPT ![l] = "idle"]
    /\ UNCHANGED <<sessVars, reqs, nlis, running, listen_thread, worker_thread,
                   audio, heard, returned>>
    /\ UNCHANGED obsVars

\* voice.py:103-104: `while self._running` fails, the stream is closed
\* (closing waits for a callback that is executing) and the thread ends
ListenExit(l) ==
    /\ listen_thread[l] = "open" /\ ~running[l] /\ stream[l] /= "checked"
    /\ listen_thread' = [listen_thread EXCEPT ![l] = "exited"]
    /\ UNCHANGED <<sessVars, reqs, vadVars, nlis, running, queue, worker_thread,
                   audio, heard, returned>>
    /\ UNCHANGED obsVars

\* voice.py:107-108: the stream raises (no device, driver failure); logged, the
\* thread ends, _running is left as it is
DeviceError(l) ==
    /\ listen_thread[l] = "open" /\ stream[l] /= "checked"
    /\ listen_thread' = [listen_thread EXCEPT ![l] = "exited"]
    /\ UNCHANGED <<sessVars, reqs, vadVars, nlis, running, queue, worker_thread,
                   audio, heard, returned>>
    /\ UNCHANGED obsVars

----------------------------------------------------------------------------
\* VoiceListener: the worker thread (voice.py:110-122).

\* what model.transcribe does with one utterance: result["text"], or it raises
EngineResults ==
    { [kind |-> "text", text |-> <<" ", "O", "b", "s", ",", " ", "x", "\n">>],
      [kind |-> "text", text |-> <<"j", "o", "b", "s", " ", "x">>],
      [kind |-> "text", text |-> <<" ", "[", "x", "]">>],
      [kind |-> "text", text |-> <<" ">>],
      [kind |-> "error", text |-> <<>>] }

\* voice.py:24-27  transcribe_audio, for an engine result that is a text
transcribe_audio(res) ==
    Strip(res.text)

\* voice.py:117  text and not text.startswith("[")
IsSpeechText(text) ==
    text /= <<>> /\ ~StartsWith(text, <<"[">>)

\* voice.py:111: the loop test
WorkerTest(l) ==
    /\ worker_thread[l] = "test"
    /\ worker_thread' = [worker_thread EXCEPT ![l] = IF running[l] THEN "get" ELSE "exited"]
    /\ UNCHANGED <<sessVars, reqs, vadVars, nlis, running, queue, listen_thread,
                   audio, heard, returned>>
    /\ UNCHANGED obsVars

\* voice.py:112-114: queue.get() returns; the sentinel ends the loop
WorkerGet(l) ==
    /\ worker_thread[l] = "get"
    /\ queue[l] /= <<>>
    /\ queue' = [queue EXCEPT ![l] = Tail(@)]
    /\ IF Head(queue[l]) = Sentinel
       THEN /\ worker_thread' = [worker_thread EXCEPT ![l] = "exited"]
            /\ UNCHANGED <<audio, heard, returned>>
       ELSE /\ worker_thread' = [worker_thread EXCEPT ![l] = "stt"]
            /\ audio' = [audio EXCEPT ![l] = Head(queue[l])]
            /\ heard' = [heard EXCEPT ![l] = Append(@, Head(queue[l]).id)]
            /\ UNCHANGED returned
    /\ UNCHANGED <<sessVars, reqs, vadVars, nlis, running, listen_thread>>
    /\ UNCHANGED obsVars

\* voice.py:116: the value of `text`, or the exception the call raised
Returned(res) ==
    IF res.kind = "text" THEN [kind |-> "text", text |-> transcribe_audio(res)]
    ELSE [kind |-> "error", text |-> <<>>]

\* A worker loop without the try/except around the transcription: an exception
\* of the engine ends the thread
WorkerTranscribe_Uncaught(l, res) ==
    /\ worker_thread[l] = "stt"
    /\ IF res.kind = "text" /\ IsSpeechText(transcribe_audio(res))
       THEN /\ Len(reqs) < MaxReq
            /\ reqs' = Append(reqs,
                   NewRequest("voice", l, audio[l].id, transcribe_audio(res), "sched"))
       ELSE UNCHANGED reqs
    /\ returned' = [returned EXCEPT ![l] = Append(@, Returned(res))]
    /\ worker_thread' = [worker_thread EXCEPT ![l] =
           IF res.kind = "error" THEN "exited" ELSE "test"]
    /\ audio' = [audio EXCEPT ![l] = Sentinel]
    /\ UNCHANGED <<sessVars, vadVars, nlis, running, queue, listen_thread, heard>>
    /\ UNCHANGED obsVars

\* A worker loop without the test of voice.py:117: every text the engine
\* returns goes to the callback
WorkerTranscribe_NoFilter(l, res) ==
    /\ worker_thread[l] = "stt"
    /\ IF res.kind = "text"
       THEN /\ Len(reqs) < MaxReq
            /\ reqs' = Append(reqs,
                   NewRequest("voice", l, audio[l].id, transcribe_audio(res), "sched"))
       ELSE UNCHANGED reqs
    /\ returned' = [returned EXCEPT ![l] = Append(@, Returned(res))]
    /\ worker_thread' = [worker_thread EXCEPT ![l] = "test"]
    /\ audio' = [audio EXCEPT ![l] = Sentinel]
    /\ UNCHANGED <<sessVars, vadVars, nlis, running, queue, listen_thread, heard>>
    /\ UNCHANGED obsVars

\* voice.py:115-122 and main.py:505-506: the engine call ends; a speech text goes
\* to on_transcription, which schedules _handle_transcription on the loop
WorkerTranscribe(l, res) ==
    /\ worker_thread[l] = "stt"
    /\ IF res.kind = "text" /\ IsSpeechText(transcribe_audio(res))
       THEN /\ Len(reqs) < MaxReq
            /\ reqs' = Append(reqs,
                   NewRequest("voice", l, audio[l].id, transcribe_audio(res), "sched"))
       ELSE UNCHANGED reqs
    /\ returned' = [returned EXCEPT ![l] = Append(@, Returned(res))]
    /\ worker_thread' = [worker_thread EXCEPT ![l] = "test"]
    /\ audio' = [audio EXCEPT ![l] = Sentinel]
    /\ UNCHANGED <<sessVars, vadVars, nlis, running, queue, listen_thread, heard>>
    /\ UNCHANGED obsVars

----------------------------------------------------------------------------
\* The specification.

\* RMS levels of the blocks the device delivers: below, at and above the threshold
Levels ==
    {SILENCE_THRESHOLD - 1, SILENCE_THRESHOLD, SILENCE_THRESHOLD + 1}

\* the blocks of a speaker who utters one block and falls silent
ShortLevels(l) ==
    IF is_speaking[l] THEN {SILENCE_THRESHOLD} ELSE {SILENCE_THRESHOLD + 1}

AudioCbShort(l) ==
    \E level \in ShortLevels(l) : AudioCbBody(l, level)

\* The whole session: receive loop, requests, one listener.
Next ==
    \/ \E c \in ChatContents : RecvMessage(c)
    \/ VoiceStart(SessListeners, MaxInbound)
    \/ VoiceStop(MaxInbound)
    \/ VoiceStopPut
    \/ ClientClose
    \/ Disconnect
    \/ DisconnectPut
    \/ \E r \in 1..MaxReq : TaskGate(r)
    \/ \E r \in 1..MaxReq : TaskStart(r)
    \/ \E r \in 1..MaxReq, o \in SessOutcomes, wsd \in BOOLEAN : AgentReturns(r, o, wsd)
    \/ \E r \in 1..MaxReq, wsd \in BOOLEAN : AgentTimeout(r, wsd)
    \/ \E r \in 1..MaxReq, wsd \in BOOLEAN : SendStreamEnd(r, wsd)
    \/ \E l \in Listeners : AudioCbEnter(l, SessUtterances)
    \/ \E l \in Listeners : AudioCbShort(l)
    \/ \E l \in Listeners : ListenExit(l)
    \/ \E l \in Listeners : DeviceError(l)
    \/ \E l \in Listeners : WorkerTest(l)
    \/ \E l \in Listeners : WorkerGet(l)
    \/ \E l \in Listeners, res \in EngineResults : WorkerTranscribe(l, res)

Spec ==
    Init /\ [][Next]_vars

\* The receive loop with chat messages only: every executor outcome.
RelayNext ==
    \/ \E c \in ChatContents : RecvMessage(c)
    \/ ClientClose
    \/ Disconnect
    \/ \E r \in 1..MaxReq, o \in AgentOutcomes, wsd \in BOOLEAN : AgentReturns(r, o, wsd)
    \/ \E r \in 1..MaxReq, wsd \in BOOLEAN : AgentTimeout(r, wsd)
    \/ \E r \in 1..MaxReq, wsd \in BOOLEAN : SendStreamEnd(r, wsd)

RelaySpec ==
    Init /\ [][RelayNext]_vars

\* The segmenter of one listener on every block sequence: the device delivers
\* blocks of any level; the utterances stay in the queue.
AudioCbAny(l) ==
    \E level \in Levels : AudioCbBody(l, level)

VadNext ==
    \/ VoiceStart(LiveListeners, LiveInbound)
    \/ \E l \in Listeners : AudioCbEnter(l, SessUtterances)
    \/ \E l \in Listeners : AudioCbAny(l)

VadSpec ==
    Init /\ [][VadNext]_vars

\* The segmenter of one listener over several utterances, on every block
\* sequence; the utterances stay in the queue.
SegmentNext ==
    \/ VoiceStart(LiveListeners, LiveInbound)
    \/ \E l \in Listeners : AudioCbEnter(l, MaxUtterances)
    \/ \E l \in Listeners : AudioCbAny(l)

SegmentSpec ==
    Init /\ [][SegmentNext]_vars

\* The wake-word gate on its own: the first transcription task of a listener,
\* for every text of GateTexts, up to the send of the transcription message.
GateTails ==
    LET A == {",", ".", " ", "\n", "x"}
    IN  {<<>>} \cup {<<a>> : a \in A} \cup {<<a, b>> : a, b \in A}
            \cup {<<a, b, c>> : a, b, c \in A}

GateTexts ==
    {p \o k \o t :
        p \in {<<>>, <<" ">>, <<"j">>, <<"x", " ">>, <<"j", "o", "b", "s", " ">>},
        k \in {<<"o", "b", "s">>, <<"O", "B", "S">>, <<"O", "b", "s">>, <<"o", "b">>},
        t \in GateTails}
    \cup {<<"o", "b", "s", ",", " ", "h", "i", "d", "e", " ", "w", "e", "b", "c", "a", "m">>,
          <<"h", "i", "d", "e", " ", "w", "e", "b", "c", "a", "m">>,
          <<"O", "B", "S", " ", "s", "h", "o", "w", " ", "s", "c", "e", "n", "e">>,
          <<"o", "b", "s", ",", " ", "x", "\n", "x">>}

\* a listener has been started and its worker has passed the text of its first
\* utterance to on_transcription
GateInit ==
    /\ ws = "open"
    /\ mainPc = "recv"
    /\ inbox = <<Frame("voice_start", <<>>)>>
    /\ listener = 1
    /\ ctl = <<VoiceStatus(TRUE)>>
    /\ nlis = 1
    /\ running = [l \in Listeners |-> l = 1]
    /\ queue = [l \in Listeners |-> <<>>]
    /\ is_speaking = [l \in Listeners |-> FALSE]
    /\ silent_count = [l \in Listeners |-> 0]
    /\ audio_buffer = [l \in Listeners |-> <<>>]
    /\ nput = [l \in Listeners |-> IF l = 1 THEN 1 ELSE 0]
    /\ stream = [l \in Listeners |-> "idle"]
    /\ listen_thread = [l \in Listeners |-> IF l = 1 THEN "open" ELSE "none"]
    /\ worker_thread = [l \in Listeners |-> IF l = 1 THEN "test" ELSE "none"]
    /\ audio = [l \in Listeners |-> Sentinel]
    /\ heard = [l \in Listeners |-> IF l = 1 THEN <<1>> ELSE <<>>]
    /\ SessionOpen(0)
    /\ \E t \in GateTexts :
           /\ reqs = <<NewRequest("voice", 1, 1, t, "sched")>>
           /\ returned = [l \in Listeners |->
                  IF l = 1 THEN <<[kind |-> "text", text |-> t]>> ELSE <<>>]

GateNext ==
    \E r \in 1..MaxReq : TaskGate(r)

GateSpec ==
    GateInit /\ [][GateNext]_vars

\* The receive loop with every kind of inbound frame, in a session that finds
\* obs_client as the process start left it (None) or as an earlier session set it.
FrameInit ==
    NoFrameYet /\ reqs = <<>> /\ \E client \in {0, 1} : SessionOpen(client)

FrameNext ==
    \/ \E c \in ChatContents : RecvMessage(c)
    \/ \E raw \in BadRaws : RecvUnparsable(raw)
    \/ \E t \in OtherTypes : RecvOther(t)
    \/ \E port \in Ports, ok \in BOOLEAN : RecvObsConnect(port, ok)
    \/ VoiceStart(MaxListeners, MaxInbound)
    \/ VoiceStop(MaxInbound)
    \/ VoiceStopPut
    \/ ClientClose
    \/ Disconnect
    \/ DisconnectPut
    \/ \E r \in 1..MaxReq, o \in SessOutcomes, wsd \in BOOLEAN : AgentReturns(r, o, wsd)
    \/ \E r \in 1..MaxReq, wsd \in BOOLEAN : AgentTimeout(r, wsd)
    \/ \E r \in 1..MaxReq, wsd \in BOOLEAN : SendStreamEnd(r, wsd)

FrameSpec ==
    FrameInit /\ [][FrameNext]_vars

\* the engine results of the listener specifications: a speech text, a
\* non-speech marker and an engine error
ListenerResults ==
    {x \in EngineResults : x.kind = "error" \/ StartsWith(Strip(x.text), <<"[">>)
                              \/ WakeSearch(Strip(x.text)).matched}

\* The listeners of a session: start, stop, capture and worker threads; the
\* transcription tasks are scheduled and not run.
ListenerNext ==
    \/ VoiceStart(MaxListeners, MaxInbound)
    \/ VoiceStop(MaxInbound)
    \/ VoiceStopPut
    \/ \E l \in Listeners : AudioCbEnter(l, MaxUtterances)
    \/ \E l \in Listeners : AudioCbShort(l)
    \/ \E l \in Listeners : ListenExit(l)
    \/ \E l \in Listeners : DeviceError(l)
    \/ \E l \in Listeners : WorkerTest(l)
    \/ \E l \in Listeners : WorkerGet(l)
    \/ \E l \in Listeners, res \in ListenerResults : WorkerTranscribe(l, res)

ListenerSpec ==
    Init /\ [][ListenerNext]_vars

\* One listener from its start to its stop, with the threads scheduled: a
\* worker that can step does (a transcription call returns), a capture thread
\* whose loop test fails leaves, and an audio callback that has begun returns.
WorkerStep(l) ==
    \/ WorkerTest(l)
    \/ WorkerGet(l)
    \/ \E res \in ListenerResults : WorkerTranscribe(l, res)

LiveNext ==
    \/ VoiceStart(LiveListeners, LiveInbound)
    \/ VoiceStop(LiveInbound)
    \/ VoiceStopPut
    \/ \E l \in Listeners : AudioCbEnter(l, MaxUtterances)
    \/ \E l \in Listeners : AudioCbShort(l)
    \/ \E l \in Listeners : ListenExit(l)
    \/ \E l \in Listeners : DeviceError(l)
    \/ \E l \in Listeners : WorkerStep(l)

\* (the listeners this specification constructs are 1..LiveListeners)
ListenerFair ==
    \A l \in 1..LiveListeners :
        /\ WF_vars(WorkerStep(l))
        /\ WF_vars(ListenExit(l))
        /\ WF_vars(AudioCbShort(l))

ListenerLive ==
    Init /\ [][LiveNext]_vars /\ ListenerFair

\* The way of an utterance from the capture callback to its transcription
\* message: the listener threads and the first step of the transcription tasks.
OrderNext ==
    \/ VoiceStart(LiveListeners, LiveInbound)
    \/ VoiceStop(LiveInbound)
    \/ VoiceStopPut
    \/ \E l \in Listeners : AudioCbEnter(l, MaxUtterances)
    \/ \E l \in Listeners : AudioCbShort(l)
    \/ \E l \in Listeners : ListenExit(l)
    \/ \E l \in Listeners : DeviceError(l)
    \/ \E l \in Listeners : WorkerStep(l)
    \/ \E r \in 1..MaxReq : TaskGate(r)

OrderSpec ==
    Init /\ [][OrderNext]_vars

\* One listener and its worker on every engine result: speech with and without
\* the wake word, a marker, a blank text, an exception.
WorkerNext ==
    \/ VoiceStart(LiveListeners, LiveInbound)
    \/ VoiceStop(LiveInbound)
    \/ VoiceStopPut
    \/ \E l \in Listeners : AudioCbEnter(l, MaxUtterances)
    \/ \E l \in Listeners : AudioCbShort(l)
    \/ \E l \in Listeners : ListenExit(l)
    \/ \E l \in Listeners : DeviceError(l)
    \/ \E l \in Listeners : WorkerTest(l)
    \/ \E l \in Listeners : WorkerGet(l)
    \/ \E l \in Listeners, res \in EngineResults : WorkerTranscribe(l, res)

WorkerSpec ==
    Init /\ [][WorkerNext]_vars

----------------------------------------------------------------------------
\* Properties of the streaming relay.

\* the messages of a request from its stream_start on (the transcription
\* message of a voice request comes before them)
StreamPart(q) ==
    IF q.out /= <<>> /\ q.out[1].type = "transcription" THEN Tail(q.out) ELSE q.out

AllBlank(h) ==
    \A i \in 1..Len(h) : h[i] = "blank"

NoErrorSent(q) ==
    \A i \in 1..Len(q.out) : q.out[i].type /= "error"

\* the receive loop went on after request r: it is back at receive_text, or it
\* has taken up a later request, unless the client went away
LoopWentOn(r) ==
    (r = Len(reqs) /\ ws = "open") => mainPc = "recv"

\* C1: every command request (chat message or wake-matched transcript) sends
\* stream_start first, then at most one stream_delta followed by stream_end, or
\* one error and nothing else; a request that has ended has sent exactly one of
\* the two endings, and a transcript without the wake word sends nothing.
C1_StreamEnvelope ==
    \A r \in 1..Len(reqs) :
        LET q == reqs[r]
            o == StreamPart(q)
        IN  /\ Len(o) <= 3
            /\ Len(o) >= 1 => o[1] = StreamStart
            /\ Len(o) >= 2 => o[2].type \in {"stream_delta", "error"}
            /\ Len(o) = 3 => (o[2].type = "stream_delta" /\ o[3] = StreamEnd)
            /\ q.pc \in {"running", "sentDelta"} => Len(o) >= 1
            /\ q.pc = "done" => (Len(o) = 3 \/ (Len(o) = 2 /\ o[2].type = "error"))
            /\ q.pc \in {"sched", "ignored"} => q.out = <<>>

C1_Witness ==
    \E r1, r2 \in 1..Len(reqs) :
        /\ reqs[r1].origin = "voice" /\ reqs[r1].pc = "done"
        /\ Len(StreamPart(reqs[r1])) = 3
        /\ reqs[r2].origin = "chat" /\ reqs[r2].pc = "done"
        /\ Len(StreamPart(reqs[r2])) = 2

\* C2: dispatch makes at most max_attempts = 3 agent.run calls; a blank result
\* on one of the first two attempts is followed by another call; when the
\* first k results were blank and result k+1 is a non-blank text R, no further
\* call is made (k+1 calls in all) and the stream_delta carries exactly R.
C2_RetryUntilValid ==
    \A r \in 1..Len(reqs) :
        LET q == reqs[r]
            n == Len(q.hist)
        IN  /\ q.attempt < max_attempts
            /\ n <= q.attempt + 1
            /\ (n >= 1 /\ n < max_attempts /\ AllBlank(q.hist)) =>
                   (q.pc = "running" /\ q.attempt = n)
            /\ (n >= 1 /\ q.hist[n] = "valid" /\ AllBlank(SubSeq(q.hist, 1, n - 1))) =>
                   /\ q.pc \in {"sentDelta", "done", "aborted"}
                   /\ q.attempt + 1 = n
                   /\ q.pc /= "aborted" => q.out[2] = StreamDelta(q.last.text)

C2_Witness ==
    \E r \in 1..Len(reqs) :
        /\ reqs[r].hist = <<"blank", "blank", "valid">>
        /\ reqs[r].out = <<StreamStart, StreamDelta(<<" ", "o", "k">>), StreamEnd>>

\* C3: three blank results in a row end the request after exactly three calls
\* with stream_start, a stream_delta carrying the apology of main.py:472 and
\* stream_end, and without an error message.
C3_AllBlankApology ==
    \A r \in 1..Len(reqs) :
        LET q == reqs[r]
        IN  (Len(q.hist) = max_attempts /\ AllBlank(q.hist)) =>
                /\ q.attempt = max_attempts - 1
                /\ q.pc \in {"sentDelta", "done", "aborted"}
                /\ NoErrorSent(q)
                /\ q.pc = "sentDelta" => q.out = <<StreamStart, StreamDelta(APOLOGY_EMPTY)>>
                /\ q.pc = "done" =>
                       q.out = <<StreamStart, StreamDelta(APOLOGY_EMPTY), StreamEnd>>

C3_Witness ==
    \E r \in 1..Len(reqs) :
        /\ reqs[r].hist = <<"blank", "blank", "blank">>
        /\ reqs[r].pc = "done"

\* C4 (as claimed): when every attempt returned blank or raised a transient
\* error, the request ends with a stream_delta carrying an apology and
\* stream_end, and sends no error message.
C4_TransientNeverError ==
    \A r \in 1..Len(reqs) :
        LET q == reqs[r]
        IN  (/\ q.pc = "done"
             /\ \A i \in 1..Len(q.hist) : q.hist[i] \in {"blank", "transient"}) =>
                /\ NoErrorSent(q)
                /\ Len(q.out) = 3
                /\ q.out[2] \in {StreamDelta(APOLOGY_EMPTY), StreamDelta(APOLOGY_EXHAUSTED)}
                /\ q.out[3] = StreamEnd

\* C5 (as claimed): an attempt that raises an error outside the transient class
\* is the last attempt, and the request sends stream_start and one error
\* carrying str(e), after which the receive loop goes on.
C5_HardErrorDescription ==
    \A r \in 1..Len(reqs) :
        LET q == reqs[r]
            n == Len(q.hist)
        IN  (n >= 1 /\ q.hist[n] = "hard") =>
                /\ q.pc \in {"done", "aborted"}
                /\ q.pc = "aborted" => ws = "closed"
                /\ q.attempt + 1 = n
                /\ q.pc = "done" => q.out = <<StreamStart, ErrorMsg(q.last.text)>>
                /\ LoopWentOn(r)

\* C5 (amended): as claimed, except that the error message carries the fixed
\* timeout text when the raised error is an asyncio.TimeoutError, and str(e)
\* for every other error.
C5_HardErrorSurfaced ==
    \A r \in 1..Len(reqs) :
        LET q == reqs[r]
            n == Len(q.hist)
        IN  (n >= 1 /\ q.hist[n] = "hard") =>
                /\ q.pc \in {"done", "aborted"}
                /\ q.pc = "aborted" => ws = "closed"
                /\ q.attempt + 1 = n
                /\ q.pc = "done" =>
                       q.out = <<StreamStart,
                                 ErrorMsg(IF q.last.timeout_error THEN TIMEOUT_MESSAGE
                                          ELSE q.last.text)>>
                /\ LoopWentOn(r)

C5_Witness ==
    /\ Len(reqs) = 2
    /\ reqs[1].hist = <<"blank", "hard">>
    /\ reqs[1].out = <<StreamStart, ErrorMsg(<<"h", "i", "n", "t">>)>>
    /\ reqs[2].pc = "done"

\* C6: when wait_for gives up on the retry series, the request sends
\* stream_start and one error carrying the fixed timeout text, no stream_delta
\* and no stream_end, and the receive loop goes on with later requests.
C6_TimeoutThenUsable ==
    \A r \in 1..Len(reqs) :
        LET q == reqs[r]
            n == Len(q.hist)
        IN  (n >= 1 /\ q.hist[n] = "timeout") =>
                /\ q.pc \in {"done", "aborted"}
                /\ q.pc = "aborted" => (ws = "closed" /\ q.out = <<StreamStart>>)
                /\ q.pc = "done" => q.out = <<StreamStart, ErrorMsg(TIMEOUT_MESSAGE)>>
                /\ LoopWentOn(r)

C6_Witness ==
    /\ Len(reqs) = 2
    /\ reqs[1].hist = <<"blank", "timeout">>
    /\ reqs[1].pc = "done"
    /\ reqs[2].origin = "chat"
    /\ reqs[2].out = <<StreamStart, StreamDelta(<<" ", "o", "k">>), StreamEnd>>

\* a request that has sent stream_start and neither stream_end nor error yet
InFlight(r) ==
    reqs[r].pc \in {"running", "sentDelta"}

\* C7 (as claimed): at most one request of the session is between its
\* stream_start and its stream_end or error.
C7_NoOverlap ==
    Cardinality({r \in 1..Len(reqs) : InFlight(r)}) <= 1

----------------------------------------------------------------------------
\* Properties of the listener.

\* stop() has been called on listener l and has returned
Stopped(l) ==
    /\ l <= nlis
    /\ ~running[l]
    /\ ~(mainPc \in {"vstop", "dstop"} /\ listener = l)

ThreadsExited(l) ==
    listen_thread[l] = "exited" /\ worker_thread[l] = "exited"

\* C8: once stop() has returned, the capture thread and the worker thread of
\* that listener both terminate, whatever the worker was doing.
C8_ThreadsTerminate ==
    \A l \in 1..LiveListeners : Stopped(l) ~> ThreadsExited(l)

\* both threads gone after a stop that came while the worker was transcribing
\* with another utterance queued
C8_Witness ==
    \E l \in Listeners :
        /\ Stopped(l) /\ ThreadsExited(l)
        /\ Len(heard[l]) = 1
        /\ Len(queue[l]) = 2

\* C9 (as claimed): when the worker has exited, every utterance put before the
\* sentinel has been received and passed to the engine, in the order of the puts.
C9_NoUtteranceDropped ==
    \A l \in Listeners :
        worker_thread[l] = "exited" =>
            /\ \A i, j \in 1..Len(queue[l]) :
                   (i < j /\ queue[l][j] = Sentinel) => queue[l][i] = Sentinel
            /\ \A i \in 1..Len(heard[l]) : heard[l][i] = i

\* the lifecycle of the session's listener is Running
LifecycleRunning ==
    listener /= 0 /\ running[listener]

\* the voice_start / voice_stop frames among the first n inbound frames
RECURSIVE VoiceFrames(_)
VoiceFrames(n) ==
    IF n = 0 THEN <<>>
    ELSE IF inbox[n].type \in {"voice_start", "voice_stop"}
         THEN Append(VoiceFrames(n - 1), inbox[n].type)
         ELSE VoiceFrames(n - 1)

\* between two frames: one voice_status per voice frame, true for voice_start
\* and false for voice_stop, the last one telling whether a listener is Running
C10_StatusInv ==
    mainPc = "recv" =>
        LET vf == VoiceFrames(Len(inbox))
        IN  /\ Len(ctl) = Len(vf)
            /\ \A i \in 1..Len(vf) : ctl[i] = VoiceStatus(vf[i] = "voice_start")
            /\ ctl /= <<>> => ctl[Len(ctl)].listening = LifecycleRunning

\* a voice_start on a Running listener and a voice_stop without one leave the
\* listeners, their threads and their queues as they are
C10_Idempotent ==
    /\ (/\ inbox' = Append(inbox, Frame("voice_start", <<>>))
        /\ LifecycleRunning)
           => UNCHANGED <<listener, vadVars, lisVars>>
    /\ (/\ inbox' = Append(inbox, Frame("voice_stop", <<>>))
        /\ ~LifecycleRunning)
           => (mainPc' = "recv" /\ UNCHANGED <<listener, vadVars, lisVars>>)

\* C10: voice_start and voice_stop are idempotent and each is answered with one
\* voice_status: a voice_start while a listener is Running constructs nothing
\* and starts no thread, a voice_stop while none is Running changes no listener
\* and puts no sentinel, and the last voice_status sent tells whether the
\* session's listener is Running.
C10_VoiceIdempotent ==
    [](C10_StatusInv) /\ [][C10_Idempotent]_vars

C10_Witness ==
    /\ mainPc = "recv"
    /\ Len(inbox) = 3
    /\ inbox[1].type = "voice_stop"
    /\ inbox[2].type = "voice_start"
    /\ inbox[3].type = "voice_start"
    /\ nlis = 1
    /\ ctl = <<VoiceStatus(FALSE), VoiceStatus(TRUE), VoiceStatus(TRUE)>>

----------------------------------------------------------------------------
\* Properties of the session and its frames.

\* C11 (as claimed): when the session handler has ended, in whatever way, no
\* listener of the session is Running (stop() has cleared its flag).
C11_StoppedAtExit ==
    mainPc = "exit" =>
        \A l \in 1..nlis : ~running[l]

\* an inbound obs_connect whose port `int()` accepts
ConnectRequest(f) ==
    f.type = "obs_connect" /\ PortIsInt(f.content[1])

\* how many of the first n inbound frames are such obs_connect frames
RECURSIVE CountFrames(_)
CountFrames(n) ==
    IF n = 0 THEN 0
    ELSE CountFrames(n - 1) + (IF ConnectRequest(inbox[n]) THEN 1 ELSE 0)

\* an inbound frame the claim calls malformed
Malformed(f) ==
    \/ f.type \in BadRaws
    \/ f.type \in OtherTypes
    \/ f.type = "message" /\ f.content = <<>>
    \/ f.type = "obs_connect" /\ ~PortIsInt(f.content[1])

\* C12 (as claimed): after a malformed inbound frame (not parseable as an
\* object, unknown or missing type, chat message without content, obs_connect
\* with a port that is no integer) the session is back in its receive loop.
C12_MalformedIgnored ==
    (inbox /= <<>> /\ Malformed(inbox[Len(inbox)])) => mainPc = "recv"

----------------------------------------------------------------------------
\* Properties of the segmenter.

\* the number of consecutive blocks at or below the threshold that end b
RECURSIVE SilentRun(_)
SilentRun(b) ==
    IF b = <<>> \/ b[Len(b)] > SILENCE_THRESHOLD THEN 0
    ELSE 1 + SilentRun(SubSeq(b, 1, Len(b) - 1))

\* Idle holds no blocks; Speaking holds the blocks since the onset, the first
\* of them above the threshold, with fewer than three silent blocks at the end
C13_StateInv ==
    \A l \in Listeners :
        IF is_speaking[l]
        THEN /\ audio_buffer[l] /= <<>>
             /\ audio_buffer[l][1] > SILENCE_THRESHOLD
             /\ silent_count[l] = SilentRun(audio_buffer[l])
             /\ silent_count[l] < 3
        ELSE audio_buffer[l] = <<>> /\ silent_count[l] = 0

\* one block processed by the callback of listener l
C13_Block(l) ==
    \E level \in Levels :
        /\ AudioCbBody(l, level)
        /\ IF ~is_speaking[l]
           THEN is_speaking'[l] <=> level > SILENCE_THRESHOLD
           ELSE ~is_speaking'[l] <=>
                    (level <= SILENCE_THRESHOLD /\ SilentRun(audio_buffer[l]) = 2)
        /\ (level > SILENCE_THRESHOLD) => silent_count'[l] = 0

\* C13: Idle becomes Speaking exactly on a block above the threshold, Speaking
\* becomes Idle exactly on the third consecutive block at or below it (a block
\* at the threshold is silence, a block above it ends the silent run), and no
\* other step changes the Idle/Speaking state.
C13_VadTransitions ==
    /\ [](C13_StateInv)
    /\ [][\A l \in Listeners :
            IF stream[l] = "checked" /\ stream'[l] = "idle"
            THEN C13_Block(l)
            ELSE is_speaking'[l] = is_speaking[l]]_vars

\* back to Idle on the third block at the threshold, the utterance put
C13_Witness ==
    \E l \in Listeners :
        /\ ~is_speaking[l]
        /\ queue[l] /= <<>>
        /\ queue[l][1].blocks = <<SILENCE_THRESHOLD + 1, SILENCE_THRESHOLD + 1,
                                  SILENCE_THRESHOLD, SILENCE_THRESHOLD,
                                  SILENCE_THRESHOLD>>

\* the duration, in milliseconds, of the blocks above the threshold that come
\* before the silent run that ended the utterance
SpeechDuration(b) ==
    Cardinality({i \in 1..(Len(b) - silence_blocks) : b[i] > SILENCE_THRESHOLD})
        * BLOCK_DURATION

\* C14: every utterance put into the queue has at least MIN_SPEECH_DURATION of
\* speech before the silent run that ended it.
C14_MinSpeech ==
    \A l \in Listeners :
        \A i \in 1..Len(queue[l]) :
            queue[l][i] /= Sentinel =>
                /\ Len(queue[l][i].blocks) > silence_blocks
                /\ SpeechDuration(queue[l][i].blocks) >= MIN_SPEECH_DURATION

\* the shortest utterance: one block of speech and the three silent blocks
C14_Witness ==
    \E l \in Listeners :
        /\ queue[l] /= <<>>
        /\ Len(queue[l][1].blocks) = silence_blocks + 1
        /\ SpeechDuration(queue[l][1].blocks) = MIN_SPEECH_DURATION

----------------------------------------------------------------------------
\* Properties of the wake-word gate.

\* the token at a word boundary at position i, k >= 1 separators after it and
\* at least one character after those
TokenAt(t, i, k) ==
    /\ k >= 1
    /\ i + 3 + k <= Len(t)
    /\ (i = 1 \/ ~IsWordChar(t[i - 1]))
    /\ Lower(t[i]) = "o" /\ Lower(t[i + 1]) = "b" /\ Lower(t[i + 2]) = "s"
    /\ \A j \in (i + 3)..(i + 2 + k) : IsWakeSep(t[j])

\* the positions of t where the claim sees the wake word
TokenStarts(t) ==
    {i \in 1..Len(t) : \E k \in 1..Len(t) : TokenAt(t, i, k)}

\* the commands the claim allows for t: the trimmed remainder of t after the
\* separators of the first occurrence (whichever of them are counted as "those
\* separators" when the text goes on with separator characters)
CommandsAsClaimed(t) ==
    LET i == CHOOSE a \in TokenStarts(t) : \A b \in TokenStarts(t) : a <= b
    IN  {Strip(SubSeq(t, i + 3 + k, Len(t))) : k \in {n \in 1..Len(t) : TokenAt(t, i, n)}}

\* C15 (as claimed): the gate lets a text through exactly when it holds the
\* token "obs" at a word boundary, one or more separators and something after
\* them, and the command is the trimmed remainder after those separators at
\* the first occurrence; every other text is ignored.
C15_WakeGate ==
    \A r \in 1..Len(reqs) :
        (reqs[r].origin = "voice" /\ reqs[r].pc /= "sched") =>
            LET t == Strip(reqs[r].text)
            IN  /\ reqs[r].pc = "ignored" <=> TokenStarts(t) = {}
                /\ TokenStarts(t) /= {} => reqs[r].command \in CommandsAsClaimed(t)

----------------------------------------------------------------------------
\* Properties of voice requests.

\* C16: a transcription message is sent only for a voice transcript that the
\* wake-word gate let through, it carries the recognized text and not the
\* command, and it comes before the stream_start of its request; a transcript
\* the gate ignored sends nothing and calls the executor never; a chat request
\* sends no transcription message and runs with its content as the command,
\* wake word or not.
C16_TranscriptionGate ==
    \A r \in 1..Len(reqs) :
        LET q == reqs[r]
            m == WakeSearch(Strip(q.text))
        IN  IF q.origin = "voice"
            THEN /\ q.pc /= "sched" => (q.pc = "ignored" <=> ~m.matched)
                 /\ q.pc = "ignored" => (q.out = <<>> /\ q.hist = <<>>)
                 /\ q.out /= <<>> =>
                        /\ m.matched
                        /\ q.out[1] = Transcription(q.text)
                        /\ \A i \in 2..Len(q.out) : q.out[i].type /= "transcription"
                 /\ (q.pc \in {"running", "sentDelta", "done"} \/ q.hist /= <<>>) =>
                        (Len(q.out) >= 2 /\ q.out[2] = StreamStart)
            ELSE /\ \A i \in 1..Len(q.out) : q.out[i].type /= "transcription"
                 /\ q.command = q.text
                 /\ q.pc /= "ignored"

\* a voice request that ran to stream_end behind its transcription message,
\* whose text is not its command, and a chat request without the wake word
\* that called the executor
C16_Witness ==
    \E r1, r2 \in 1..Len(reqs) :
        /\ reqs[r1].origin = "voice" /\ reqs[r1].pc = "done"
        /\ Len(reqs[r1].out) = 4
        /\ reqs[r1].out[1] = Transcription(<<"O", "b", "s", ",", " ", "x">>)
        /\ reqs[r1].command = <<"x">>
        /\ reqs[r2].origin = "chat" /\ reqs[r2].hist /= <<>>
        /\ ~WakeSearch(reqs[r2].text).matched

\* C17: the worker passes the utterances of its listener to the engine in the
\* order the callback put them; the transcription tasks of a listener are
\* scheduled in the order of its utterances; and the tasks take their first
\* step, which sends the transcription message, in the order they were
\* scheduled: no task has gone past the gate while an earlier one waits.
C17_VoiceOrder ==
    /\ \A l \in Listeners :
           \A i \in 1..Len(heard[l]) : heard[l][i] = i /\ i <= nput[l]
    /\ \A r1, r2 \in 1..Len(reqs) :
           (r1 < r2 /\ reqs[r1].origin = "voice" /\ reqs[r2].origin = "voice") =>
               /\ reqs[r1].lis = reqs[r2].lis => reqs[r1].utt < reqs[r2].utt
               /\ reqs[r2].pc /= "sched" => reqs[r1].pc /= "sched"

\* two utterances of one listener, both with their transcription message sent
C17_Witness ==
    /\ Len(reqs) = 2
    /\ reqs[1].lis = reqs[2].lis
    /\ reqs[1].utt = 1 /\ reqs[2].utt = 2
    /\ reqs[1].out /= <<>> /\ reqs[2].out /= <<>>

\* C18: one obs_status is sent when the session opens and one after each
\* obs_connect; after an obs_connect the handle of the session is what
\* connect_obs returned: the obs_status says connected exactly when there is a
\* handle, a failed attempt leaves no handle (also when there was one before),
\* and a chat request runs with the handle of the last obs_status; no other
\* step sends an obs_status or changes the handle.
C18_StateInv ==
    /\ Len(obs_out) = 1 + CountFrames(Len(inbox))
    /\ \A i \in 1..Len(obs_out) : obs_out[i].type = "obs_status"
    /\ obs_out[Len(obs_out)].connected <=> deps /= 0
    /\ Len(obs_out) > 1 =>
           (obs_out[Len(obs_out)].message = "Connected" <=> deps /= 0)

C18_Connect ==
    IF Len(inbox') > Len(inbox) /\ ConnectRequest(inbox'[Len(inbox')])
    THEN /\ Len(obs_out') = Len(obs_out) + 1
         /\ SubSeq(obs_out', 1, Len(obs_out)) = obs_out
         /\ deps' \in {0, Len(obs_out) + 1}
         /\ obs_out'[Len(obs_out')] =
                ObsStatus(deps' /= 0, connect_obs(deps' /= 0, deps').msg)
    ELSE UNCHANGED <<deps, obs_out>>

C18_ObsStatus ==
    [](C18_StateInv) /\ [][C18_Connect]_vars

\* the session found a handle, a connection attempt failed, and a chat request
\* runs with no handle
C18_Witness ==
    /\ Len(obs_out) = 2
    /\ obs_out[1].connected /\ ~obs_out[2].connected
    /\ mainPc = "agent"
    /\ deps = 0

\* Properties of the threads of a session's listeners.

\* the capture thread / the worker thread of listener l has started and its
\* function has not returned
CaptureAlive(l) ==
    listen_thread[l] = "open"

WorkerAlive(l) ==
    worker_thread[l] \in {"test", "get", "stt"}

\* C19 (as claimed): in every state the capture thread and the worker thread
\* of a listener are both alive exactly when the listener is Running, also
\* after a device error and right after stop() has returned.
\* States inside stop() are left out: there the lifecycle is changing.
C19_AliveIffRunning ==
    mainPc \notin {"vstop", "dstop"} =>
        \A l \in 1..nlis :
            (CaptureAlive(l) /\ WorkerAlive(l)) <=> running[l]

\* C20 (as claimed): at no point are two capture threads, or two worker
\* threads, started by the same session alive together.
C20_OneTriple ==
    /\ Cardinality({l \in 1..nlis : CaptureAlive(l)}) <= 1
    /\ Cardinality({l \in 1..nlis : WorkerAlive(l)}) <= 1

----------------------------------------------------------------------------
\* Properties of the worker.

\* the requests on_transcription has scheduled for utterance u of listener l
CallbacksFor(l, u) ==
    {r \in 1..Len(reqs) :
        reqs[r].origin = "voice" /\ reqs[r].lis = l /\ reqs[r].utt = u}

\* an utterance for which the engine raised has no callback, and the worker
\* has ended only after stop()
C21_Inv ==
    \A l \in Listeners :
        /\ \A i \in 1..Len(returned[l]) :
               returned[l][i].kind = "error" => CallbacksFor(l, heard[l][i]) = {}
        /\ worker_thread[l] = "exited" => ~running[l]

\* C21: an exception of the engine never ends the worker loop: the utterance
\* has no callback, the worker goes back to its loop test after every engine
\* call, and an utterance put into the queue is passed to the engine unless
\* the listener is stopped.
C21_EngineErrorDropped ==
    /\ [](C21_Inv)
    /\ [][\A l \in Listeners :
            (worker_thread[l] = "stt" /\ worker_thread'[l] /= "stt")
                => worker_thread'[l] = "test"]_vars
    /\ \A l \in 1..LiveListeners : \A u \in 1..MaxUtterances :
           (nput[l] >= u) ~> (~running[l] \/ \E i \in 1..Len(heard[l]) : heard[l][i] = u)

\* the engine raised for the first utterance; the second was passed to it and
\* its text went to the callback, the listener still running
C21_Witness ==
    \E l \in Listeners :
        /\ running[l]
        /\ Len(returned[l]) = 2
        /\ returned[l][1].kind = "error"
        /\ returned[l][2].kind = "text"
        /\ CallbacksFor(l, 1) = {}
        /\ CallbacksFor(l, 2) /= {}

\* C22: the callback is invoked for an utterance exactly when the engine
\* returned a text that, trimmed, is not empty and does not start with "[";
\* once, with the trimmed text; an utterance filtered out, and one still with
\* the engine, has scheduled nothing on the session loop.
C22_CallbackFilter ==
    /\ \A l \in Listeners :
           \A i \in 1..Len(returned[l]) :
               LET t == returned[l][i]
                   cb == CallbacksFor(l, heard[l][i])
               IN  IF t.kind = "text" /\ t.text /= <<>> /\ t.text[1] /= "["
                   THEN /\ Cardinality(cb) = 1
                        /\ \A r \in cb : reqs[r].text = t.text
                        /\ ~IsSpace(t.text[1]) /\ ~IsSpace(t.text[Len(t.text)])
                   ELSE cb = {}
    /\ \A r \in 1..Len(reqs) :
           reqs[r].origin = "voice" =>
               \E i \in 1..Len(returned[reqs[r].lis]) :
                   heard[reqs[r].lis][i] = reqs[r].utt

\* a marker for the first utterance and a speech text, trimmed, for the second
C22_Witness ==
    \E l \in Listeners :
        /\ Len(returned[l]) = 2
        /\ returned[l][1] = [kind |-> "text", text |-> <<"[", "x", "]">>]
        /\ CallbacksFor(l, 1) = {}
        /\ \E r \in CallbacksFor(l, 2) : reqs[r].text = <<"O", "b", "s", ",", " ", "x">>

----------------------------------------------------------------------------
\* Properties of voice output after a stop.

\* the last voice_status sent says the session is not listening
StopAnswered ==
    ctl /= <<>> /\ ctl[Len(ctl)] = VoiceStatus(FALSE)

\* request r sends a transcription or a stream_start in this step
VoiceEmits(r) ==
    /\ Len(reqs'[r].out) > Len(reqs[r].out)
    /\ reqs'[r].out[Len(reqs'[r].out)].type \in {"transcription", "stream_start"}

\* C23 (as claimed): from the voice_status that answers a voice_stop until the
\* next voice_start, no worker delivers a text to the session and no request
\* that came from a transcript sends a transcription or a stream_start.
C23_QuietAfterStop ==
    [][(StopAnswered /\ ctl' = ctl) =>
          /\ \A r \in 1..Len(reqs) : reqs[r].origin = "voice" => ~VoiceEmits(r)
          /\ \A r \in (Len(reqs) + 1)..Len(reqs') : reqs'[r].origin /= "voice"]_vars

----------------------------------------------------------------------------
\* Properties of the segmenter.

\* a block the callback counts as speech / as silence
SpeechBlock(level) ==
    level > SILENCE_THRESHOLD

\* the state of the segmenter of listener l between two blocks
C24_State(l) ==
    LET b == audio_buffer[l]
        n == silent_count[l]
    IN  IF is_speaking[l]
        THEN /\ b /= <<>>
             /\ SpeechBlock(b[1])
             /\ n \in 0..2
             /\ n < Len(b)
             /\ \A i \in (Len(b) - n + 1)..Len(b) : ~SpeechBlock(b[i])
             /\ SpeechBlock(b[Len(b) - n])
        ELSE b = <<>> /\ n = 0

C24_StateInv ==
    \A l \in Listeners : C24_State(l)

\* C24: Idle holds no block and counts no silence; Speaking holds a buffer
\* that starts with a speech block and whose last silent_count blocks, at most
\* two, are the silent blocks after its last speech block; a silent block
\* that arrives while Idle changes neither the buffer, nor the count, nor the queue.
C24_VadState ==
    /\ [](C24_StateInv)
    /\ [][\A l \in Listeners :
            (stream[l] = "checked" /\ stream'[l] = "idle" /\ ~is_speaking[l]
                /\ ~is_speaking'[l])
            => /\ audio_buffer'[l] = audio_buffer[l]
               /\ silent_count'[l] = silent_count[l]
               /\ queue'[l] = queue[l]]_vars

\* Speaking with two silent blocks at the end of the buffer after a speech
\* block that followed an earlier silent block
C24_Witness ==
    \E l \in Listeners :
        /\ is_speaking[l]
        /\ silent_count[l] = 2
        /\ Len(audio_buffer[l]) = 5
        /\ ~SpeechBlock(audio_buffer[l][2])
        /\ SpeechBlock(audio_buffer[l][3])

\* the blocks of the utterances in queue q, in order
RECURSIVE QueuedBlocks(_)
QueuedBlocks(q) ==
    IF q = <<>> THEN <<>>
    ELSE (IF Head(q) = Sentinel THEN <<>> ELSE Head(q).blocks) \o QueuedBlocks(Tail(q))

\* the blocks listener l has kept: in its utterances and in its open buffer
Kept(l) ==
    QueuedBlocks(queue[l]) \o audio_buffer[l]

\* b starts with a speech block, ends with exactly three silent blocks and has
\* no three consecutive silent blocks before its end
WellCut(b) ==
    /\ Len(b) >= 4
    /\ SpeechBlock(b[1])
    /\ \A i \in (Len(b) - 2)..Len(b) : ~SpeechBlock(b[i])
    /\ SpeechBlock(b[Len(b) - 3])
    /\ \A i \in 1..(Len(b) - 3) :
           SpeechBlock(b[i]) \/ SpeechBlock(b[i + 1]) \/ SpeechBlock(b[i + 2])

C25_Utterances ==
    \A l \in Listeners :
        \A i \in 1..Len(queue[l]) :
            queue[l][i] /= Sentinel =>
                /\ WellCut(queue[l][i].blocks)
                /\ Duration(queue[l][i].blocks) >= 2000

\* one block processed by the callback of listener l: it is kept, once and at
\* the end, unless it is a silent block received while Idle; a segment that
\* ends is put into the queue
C25_Block(l) ==
    \E level \in Levels :
        /\ AudioCbBody(l, level)
        /\ Kept(l)' = IF SpeechBlock(level) \/ is_speaking[l]
                       THEN Append(Kept(l), level)
                       ELSE Kept(l)
        /\ (is_speaking[l] /\ ~is_speaking'[l]) => Len(queue'[l]) = Len(queue[l]) + 1

\* C25: every utterance in the queue starts with a speech block, ends with
\* exactly three silent blocks, has no earlier run of three silent blocks and
\* lasts at least 2.0 s, so that no segment is discarded as too short; the
\* utterances followed by the open buffer are the captured blocks without the
\* silent blocks received while Idle, each block once.
C25_Segmentation ==
    /\ [](C25_Utterances)
    /\ [][\A l \in Listeners :
            IF stream[l] = "checked" /\ stream'[l] = "idle"
            THEN C25_Block(l)
            ELSE Kept(l)' = Kept(l)]_vars

\* two utterances in the queue, the first of two speech blocks and the second
\* of one, each with its three silent blocks; the segmenter is Idle again
C25_Witness ==
    \E l \in Listeners :
        /\ Len(queue[l]) = 2
        /\ Len(queue[l][1].blocks) = 5
        /\ Len(queue[l][2].blocks) = 4
        /\ ~is_speaking[l]

----------------------------------------------------------------------------
\* Properties of the relayed text.

\* C26: the content of every stream_delta a request has sent is neither empty
\* nor made of whitespace only, whatever the executor's calls did.
C26_DeltaNotBlank ==
    \A r \in 1..Len(reqs) :
        \A i \in 1..Len(reqs[r].out) :
            reqs[r].out[i].type = "stream_delta" =>
                Strip(reqs[r].out[i].content) /= <<>>

\* a blank result, then a text with a leading space, relayed as it is
C26_Witness ==
    \E r \in 1..Len(reqs) :
        /\ reqs[r].hist = <<"blank", "valid">>
        /\ StreamDelta(<<" ", "o", "k">>) \in {reqs[r].out[i] : i \in 1..Len(reqs[r].out)}

====
